---------------------------- MODULE Spec2Model ----------------------------
(***************************************************************************)
(* A model of pypersonnelloc: the scalar robust adaptive Kalman filter     *)
(* (algorithm/RAKF1D.py), the three-axis coordinator                       *)
(* (algorithm/RAKFLocalization.py), the tracker factory                    *)
(* (localization/Localization.py) and the service loop (cli.py).           *)
(*                                                                         *)
(* Numbers are rationals <<n, d>> (d > 0, lowest terms), exact while they  *)
(* are short and rounded to a bounded significand otherwise.               *)
(***************************************************************************)
EXTENDS Integers, Sequences, FiniteSets, TLC

-----------------------------------------------------------------------------
(* Rational arithmetic with a bounded significand *)

Abs(n) == IF n < 0 THEN -n ELSE n
Max(a, b) == IF a > b THEN a ELSE b

RECURSIVE Gcd(_, _)
Gcd(a, b) == IF b = 0 THEN a ELSE Gcd(b, a % b)

\* the largest numerator and denominator a stored number has: a result with more
\* digits is rounded, as the code's floats are (to 53 bits there)
NMax == 2^15 - 1
DMax == 2^15 - 1

CeilDiv(n, k) == (n + k - 1) \div k
RoundDiv(n, k) == IF n < 0 THEN -((-n + k \div 2) \div k) ELSE (n + k \div 2) \div k

Reduce(n, d) == LET g == Gcd(Abs(n), d) IN <<n \div g, d \div g>>

\* n / d in lowest terms with a positive denominator, rounded when too long
RNorm(n, d) ==
    LET r == IF d < 0 THEN Reduce(-n, -d) ELSE Reduce(n, d)
        k == Max(CeilDiv(r[2], DMax), CeilDiv(Abs(r[1]), NMax))
    IN  IF k <= 1 THEN r
        ELSE Reduce(RoundDiv(r[1], k), Max(1, RoundDiv(r[2], k)))

RInt(n) == <<n, 1>>
Zero == RInt(0)
One == RInt(1)
Two == RInt(2)
Half == RNorm(1, 2)

\* operands are in lowest terms; common factors are cancelled before multiplying
RAdd(a, b) ==
    LET g == Gcd(a[2], b[2])
    IN  RNorm(a[1] * (b[2] \div g) + b[1] * (a[2] \div g), (a[2] \div g) * b[2])
RNeg(a) == <<-a[1], a[2]>>
RSub(a, b) == RAdd(a, RNeg(b))
RMul(a, b) ==
    LET g1 == Gcd(Abs(a[1]), b[2])
        g2 == Gcd(Abs(b[1]), a[2])
    IN  RNorm((a[1] \div g1) * (b[1] \div g2), (a[2] \div g2) * (b[2] \div g1))
RInv(a) == IF a[1] < 0 THEN <<-a[2], -a[1]>> ELSE <<a[2], a[1]>>
RDiv(a, b) == RMul(a, RInv(b))
RAbs(a) == <<Abs(a[1]), a[2]>>
RLt(a, b) ==
    LET g == Gcd(a[2], b[2])
    IN  a[1] * (b[2] \div g) < b[1] * (a[2] \div g)
RLe(a, b) == ~RLt(b, a)

\* np.sqrt on the perfect squares the configurations use
ISqrt(n) == CHOOSE k \in 0..n : k * k = n
RSqrt(a) == <<ISqrt(a[1]), ISqrt(a[2])>>

-----------------------------------------------------------------------------
(* RAKF1D: one-axis filter *)

\* model types (algorithm.model.type)
UwbImu == "uwb_imu"
PositionOnly == "position_only"

\* Python's None for an attribute that holds no object / no value
None == [none |-> TRUE]

\* np.zeros(n), np.ones(n)
NpZeros(n) == [i \in 1..n |-> Zero]
NpOnes(n) == [i \in 1..n |-> One]

\* a write of the last slot without the shift (what C15 rules out)
WriteLast(buf, value) ==
    [i \in 1..Len(buf) |-> IF i = Len(buf) THEN value ELSE buf[i]]

\* np.roll(buf, -1) followed by buf[count - 1] = value
RollWrite(buf, value) ==
    [i \in 1..Len(buf) |-> IF i = Len(buf) THEN value ELSE buf[i + 1]]

\* RAKF1D.__init__
RAKF1D_init(initial_state, system_model, system_model_error, measurement_error, state_error_variance, residual_threshold, adaptive_threshold, estimator_parameter_count, gamma, model_type) ==
    [ time_previous |-> -1,
      model_type |-> model_type,
      state_model_prediction |-> None,
      state_model |-> initial_state,
      system_model |-> system_model,
      system_model_error |-> system_model_error,
      measurement_standard_deviation |-> RSqrt(measurement_error),
      residual_threshold |-> residual_threshold,
      residual_weight |-> None,
      residual_measurement |-> None,
      residual_measurement_dash |-> None,
      gamma |-> gamma,
      state_error_variance_prediction |-> None,
      state_error_variance |-> state_error_variance,
      state_estimation |-> None,
      delta_state_estimate |-> None,
      gain |-> None,
      adaptive_factor |-> None,
      adaptive_threshold |-> adaptive_threshold,
      measurement_buffer |-> NpZeros(estimator_parameter_count),
      residual_weight_buffer |-> NpOnes(estimator_parameter_count),
      position_buffer |-> NpZeros(estimator_parameter_count),
      estimator_parameter_count |-> estimator_parameter_count,
      velocity_buffer |-> IF model_type = UwbImu
                            THEN NpZeros(estimator_parameter_count) ELSE None,
      acceleration_buffer |-> IF model_type = UwbImu
                                THEN NpZeros(estimator_parameter_count) ELSE None ]

\* Weighted inner product sum_i w[i] * a[i] * b[i]
RECURSIVE WDotFrom(_, _, _, _)
WDotFrom(w, a, b, i) ==
    IF i > Len(w) THEN Zero
    ELSE RAdd(RMul(w[i], RMul(a[i], b[i])), WDotFrom(w, a, b, i + 1))
WDot(w, a, b) == WDotFrom(w, a, b, 1)

\* a - k * u, componentwise
VSubScaled(a, k, u) == [i \in 1..Len(a) |-> RSub(a[i], RMul(k, u[i]))]

\* The column `col` made W-orthogonal to the columns of `basis`
RECURSIVE Orthogonalize(_, _, _, _)
Orthogonalize(w, col, basis, j) ==
    IF j > Len(basis) THEN col
    ELSE LET u == basis[j]
             uu == WDot(w, u, u)
             next == IF uu = Zero THEN col
                     ELSE VSubScaled(col, RDiv(WDot(w, col, u), uu), u)
         IN  Orthogonalize(w, next, basis, j + 1)

RECURSIVE GramSchmidt(_, _, _, _)
GramSchmidt(w, cols, basis, k) ==
    IF k > Len(cols) THEN basis
    ELSE GramSchmidt(w, cols, Append(basis, Orthogonalize(w, cols[k], basis, 1)), k + 1)

\* sm.WLS(endog, exog, weights).fit().predict(last row of exog): the fit is the
\* pseudo-inverse (minimum norm) weighted least squares solution, whose fitted
\* value at the last row is the W-orthogonal projection of endog on the columns.
RECURSIVE FittedAt(_, _, _, _, _)
FittedAt(w, y, basis, j, row) ==
    IF j > Len(basis) THEN Zero
    ELSE LET u == basis[j]
             uu == WDot(w, u, u)
             term == IF uu = Zero THEN Zero
                     ELSE RMul(RDiv(WDot(w, y, u), uu), u[row])
         IN  RAdd(term, FittedAt(w, y, basis, j + 1, row))

WLSPredictLast(endog, cols, weights) ==
    FittedAt(weights, endog, GramSchmidt(weights, cols, <<>>, 1), 1, Len(endog))

\* a prediction that leaves time_previous as it was (what C14 rules out)
PredictKeepingTime(f, timestamp_ms, velocity, acceleration) ==
    LET timedelta == IF f.time_previous < 0 THEN Zero
                     ELSE RNorm(timestamp_ms - f.time_previous, 1000)
    IN  [ f EXCEPT
            !.state_model_prediction =
                RAdd(RAdd(RMul(f.system_model, f.state_model), RMul(velocity, timedelta)),
                     RMul(RMul(acceleration, RMul(timedelta, timedelta)), Half)),
            !.state_error_variance_prediction =
                RAdd(RMul(RMul(f.system_model, f.state_error_variance), f.system_model),
                     f.system_model_error) ]

\* RAKF1D.run, lines 117-132: time step, then equations 29 and 30
Predict(f, timestamp_ms, velocity, acceleration) ==
    LET timedelta == IF f.time_previous < 0 THEN Zero
                     ELSE RNorm(timestamp_ms - f.time_previous, 1000)
    IN  [ f EXCEPT
            !.time_previous = timestamp_ms,
            !.state_model_prediction =
                RAdd(RAdd(RMul(f.system_model, f.state_model), RMul(velocity, timedelta)),
                     RMul(RMul(acceleration, RMul(timedelta, timedelta)), Half)),
            !.state_error_variance_prediction =
                RAdd(RMul(RMul(f.system_model, f.state_error_variance), f.system_model),
                     f.system_model_error) ]

\* lines 135-142: equations 35, 34, 33 (state_measurement_relation = 1)
Residual(f, current_measurement) ==
    LET residual == RSub(current_measurement, f.state_model_prediction)
    IN  [ f EXCEPT
            !.residual_measurement = residual,
            !.residual_measurement_dash =
                RAbs(RDiv(residual, f.measurement_standard_deviation)) ]

\* a weight of half the nominal one for inliers (what C16 rules out)
ResidualWeightHalved(f) ==
    [ f EXCEPT
        !.residual_weight =
            IF RLe(f.residual_measurement_dash, f.residual_threshold)
              THEN RDiv(One, RMul(Two, f.measurement_standard_deviation))
              ELSE RMul(RDiv(f.residual_threshold,
                             RMul(RMul(f.residual_measurement_dash, Two), f.gamma)),
                        RDiv(One, f.measurement_standard_deviation)) ]

\* the outlier weight without the factor 2*gamma (what C22 rules out)
ResidualWeightWithoutGamma(f) ==
    [ f EXCEPT
        !.residual_weight =
            IF RLe(f.residual_measurement_dash, f.residual_threshold)
              THEN RDiv(One, f.measurement_standard_deviation)
              ELSE RDiv(f.residual_threshold,
                        RMul(f.residual_measurement_dash, f.measurement_standard_deviation)) ]

\* lines 144-151: equations 31, 32
ResidualWeight(f) ==
    [ f EXCEPT
        !.residual_weight =
            IF RLe(f.residual_measurement_dash, f.residual_threshold)
              THEN RDiv(One, f.measurement_standard_deviation)
              ELSE RMul(RDiv(f.residual_threshold,
                             RMul(RMul(f.residual_measurement_dash, Two), f.gamma)),
                        RDiv(One, f.measurement_standard_deviation)) ]

\* lines 153-166: the buffers take the posterior so far, the measurement and
\* (uwb_imu) the velocity and acceleration
ShiftBuffers(f, current_measurement, velocity, acceleration) ==
    [ f EXCEPT
        !.position_buffer = RollWrite(f.position_buffer, f.state_model),
        !.measurement_buffer = RollWrite(f.measurement_buffer, current_measurement),
        !.velocity_buffer =
            IF f.model_type = UwbImu THEN RollWrite(f.velocity_buffer, velocity)
            ELSE f.velocity_buffer,
        !.acceleration_buffer =
            IF f.model_type = UwbImu THEN RollWrite(f.acceleration_buffer, acceleration)
            ELSE f.acceleration_buffer ]

\* lines 168-179: equation 37
Estimate(f) ==
    [ f EXCEPT
        !.state_estimation =
            WLSPredictLast(f.measurement_buffer,
                           IF f.model_type = UwbImu
                             THEN <<f.position_buffer, f.velocity_buffer,
                                    f.acceleration_buffer>>
                             ELSE <<f.position_buffer>>,
                           f.residual_weight_buffer) ]

\* line 182: equation 36
DeltaStateEstimate(f) ==
    [ f EXCEPT
        !.delta_state_estimate =
            RDiv(RSub(f.state_estimation, f.state_model_prediction),
                 f.state_error_variance_prediction) ]

\* an adaptive factor whose middle branch takes the boundaries (what C21 rules out)
AdaptiveFactorInclusive(f) ==
    [ f EXCEPT
        !.adaptive_factor =
            IF RLt(f.delta_state_estimate, f.adaptive_threshold) THEN One
            ELSE IF /\ RLe(f.adaptive_threshold, f.delta_state_estimate)
                    /\ RLe(f.delta_state_estimate, f.residual_threshold)
                   THEN RMul(RDiv(f.adaptive_threshold, f.delta_state_estimate), f.gamma)
                   ELSE RMul(f.delta_state_estimate, f.gamma) ]

\* lines 185-190: equation 38
AdaptiveFactor(f) ==
    [ f EXCEPT
        !.adaptive_factor =
            IF RLt(f.delta_state_estimate, f.adaptive_threshold) THEN One
            ELSE IF /\ RLt(f.adaptive_threshold, f.delta_state_estimate)
                    /\ RLt(f.delta_state_estimate, f.residual_threshold)
                   THEN RMul(RDiv(f.adaptive_threshold, f.delta_state_estimate), f.gamma)
                   ELSE RMul(f.delta_state_estimate, f.gamma) ]

\* a gain whose predicted variance is multiplied by the adaptive factor (what C23
\* rules out)
GainMultiplying(f) ==
    LET numerator == RMul(f.adaptive_factor, f.state_error_variance_prediction)
    IN  [ f EXCEPT
            !.gain = RDiv(numerator, RAdd(numerator, RDiv(One, f.residual_weight))) ]

\* lines 193-197: equation 39
Gain(f) ==
    LET numerator == RMul(RDiv(One, f.adaptive_factor), f.state_error_variance_prediction)
    IN  [ f EXCEPT
            !.gain = RDiv(numerator, RAdd(numerator, RDiv(One, f.residual_weight))) ]

\* lines 200-211: equations 40 and 42, then the weight enters its buffer
Correct(f) ==
    [ f EXCEPT
        !.state_model =
            RAdd(f.state_model_prediction, RMul(f.gain, f.residual_measurement)),
        !.state_error_variance =
            RMul(RSub(One, f.gain), f.state_error_variance_prediction),
        !.residual_weight_buffer = RollWrite(f.residual_weight_buffer, f.residual_weight) ]

\* RAKF1D.run: the filter after the step; the value returned is its state_model
run(f, current_measurement, timestamp_ms, velocity, acceleration) ==
    Correct(Gain(AdaptiveFactor(DeltaStateEstimate(Estimate(
        ShiftBuffers(
            ResidualWeight(Residual(Predict(f, timestamp_ms, velocity, acceleration),
                                    current_measurement)),
            current_measurement, velocity, acceleration))))))

-----------------------------------------------------------------------------
(* Collaborators outside the source tree: persistence store and transport *)

\* json.dumps / json.loads: a text wraps the value it encodes
JsonDumps(value) == [json |-> value]
IsJson(text) == "json" \in DOMAIN text
JsonLoads(text) == text.json

\* RAKF1D.state_to_dict: the flat record {x, P, t_prev, buffers}
state_to_dict(f) ==
    [ x |-> f.state_model,
      P |-> f.state_error_variance,
      t_prev |-> f.time_previous,
      meas |-> f.measurement_buffer,
      pos |-> f.position_buffer,
      w |-> f.residual_weight_buffer,
      vel |-> f.velocity_buffer,
      acc |-> f.acceleration_buffer ]

\* a restore that leaves the weight buffer of the object as it is (what C11 rules out)
update_state_without_weights(f, record) ==
    [ f EXCEPT
        !.state_model = record.x,
        !.state_error_variance = record.P,
        !.time_previous = record.t_prev,
        !.measurement_buffer = record.meas,
        !.position_buffer = record.pos,
        !.velocity_buffer = record.vel,
        !.acceleration_buffer = record.acc ]

\* RAKF1D.update_state: replaces all mutable state
update_state(f, record) ==
    [ f EXCEPT
        !.state_model = record.x,
        !.state_error_variance = record.P,
        !.time_previous = record.t_prev,
        !.measurement_buffer = record.meas,
        !.position_buffer = record.pos,
        !.residual_weight_buffer = record.w,
        !.velocity_buffer = record.vel,
        !.acceleration_buffer = record.acc ]

\* RedisDB.get / RedisDB.set on a store db: key -> text or None
RedisGet(db, key) == db[key]
RedisSet(db, key, value) == [db EXCEPT ![key] = value]

\* PubSubAMQP(config_file=...): the transport object of one protocol entry
PubSubAMQP(entry) == [exchange_name |-> entry.exchange, callback |-> entry.callback]

\* PubSubAMQP.get_callback_handler_name
get_callback_handler_name(subscriber) == subscriber.callback

\* PubSubAMQP.publish: appends the message to the bus, recorded per exchange
TransportPublish(bus, publisher, message_content) ==
    Append(bus, [exchange |-> publisher.exchange_name, msg |-> message_content])

-----------------------------------------------------------------------------
(* RAKFLocalization: the three-axis coordinator *)

Axes == <<"x", "y", "z">>
AxisSet == {"x", "y", "z"}
\* the axis is active when track_dimension > AxisOrder[axis]
AxisOrder == [x |-> 0, y |-> 1, z |-> 2]
UwbPosKey == [x |-> "x_uwb_pos", y |-> "y_uwb_pos", z |-> "z_uwb_pos"]
ImuVelKey == [x |-> "x_imu_vel", y |-> "y_imu_vel", z |-> "z_imu_vel"]
EstPosKey == [x |-> "x_est_pos", y |-> "y_est_pos", z |-> "z_est_pos"]

\* the keys personnel_msg_handler requires
RequiredKeys ==
    { "id", "x_imu_vel", "y_imu_vel", "z_imu_vel", "x_uwb_pos", "y_uwb_pos",
      "z_uwb_pos", "data_aggregator_id", "timestamp" }

\* the methods getattr(self, cb_str) finds on the coordinator
HandlerNames == {"personnel_msg_handler"}

\* RAKFLocalization.__init__, lines 45-47: the dimension check
DimensionRejected(track_dimension) == track_dimension > 3

\* RAKFLocalization.__init__, lines 52-86: the filter of one axis
\* (every axis is built with error.measurement.x)
AxisFilter(algorithm, axis) ==
    IF algorithm.track_dimension > AxisOrder[axis]
      THEN RAKF1D_init(Zero,
                       algorithm.model.coefficient[axis],
                       algorithm.error.model[axis],
                       algorithm.error.measurement["x"],
                       algorithm.error.state_error_variance[axis],
                       algorithm.threshold.residual[axis],
                       algorithm.threshold.adaptive[axis],
                       algorithm.estimator.parameter.count,
                       algorithm.threshold.gamma[axis],
                       algorithm.model.type)
      ELSE None

\* RAKFLocalization.__init__, lines 88-116: every protocol entry must be amq
ProtocolRejected(protocol) ==
    \/ \E i \in 1..Len(protocol.publishers) : protocol.publishers[i].type # "amq"
    \/ \E i \in 1..Len(protocol.subscribers) : protocol.subscribers[i].type # "amq"

Transports(entries) == [i \in 1..Len(entries) |-> PubSubAMQP(entries[i])]

\* convert_g_to_mpss = lambda g: g * 9.8
convert_g_to_mpss(g) == RMul(g, RNorm(98, 10))

\* a routing that hands the x velocity to every axis (what C8 rules out)
AxisCallOneVelocity(filters, track_dimension, axis, measurement) ==
    IF track_dimension > AxisOrder[axis] /\ filters[axis] # None
      THEN IF filters["x"].model_type = UwbImu
             THEN [ axis |-> axis,
                    current_measurement |-> RInt(measurement[UwbPosKey[axis]]),
                    velocity |-> RInt(measurement[ImuVelKey["x"]]),
                    acceleration |-> convert_g_to_mpss(Zero),
                    timestamp_ms |-> measurement["timestamp"] ]
             ELSE [ axis |-> axis,
                    current_measurement |-> RInt(measurement[UwbPosKey[axis]]),
                    velocity |-> Zero,
                    acceleration |-> Zero,
                    timestamp_ms |-> measurement["timestamp"] ]
      ELSE None

\* _process_measurement, lines 131-159: the call made on one axis, if any
AxisCall(filters, track_dimension, axis, measurement) ==
    IF track_dimension > AxisOrder[axis] /\ filters[axis] # None
      THEN IF filters["x"].model_type = UwbImu
             THEN [ axis |-> axis,
                    current_measurement |-> RInt(measurement[UwbPosKey[axis]]),
                    velocity |-> RInt(measurement[ImuVelKey[axis]]),
                    acceleration |-> convert_g_to_mpss(Zero),
                    timestamp_ms |-> measurement["timestamp"] ]
             ELSE [ axis |-> axis,
                    current_measurement |-> RInt(measurement[UwbPosKey[axis]]),
                    velocity |-> Zero,
                    acceleration |-> Zero,
                    timestamp_ms |-> measurement["timestamp"] ]
      ELSE None

RunCall(f, call) ==
    run(f, call.current_measurement, call.timestamp_ms, call.velocity, call.acceleration)

\* the calls _process_measurement makes, per axis
AxisCalls(filters, track_dimension, measurement) ==
    [axis \in AxisSet |-> AxisCall(filters, track_dimension, axis, measurement)]

\* the filters after the calls
ProcessedFilters(filters, calls) ==
    [ axis \in AxisSet |->
        IF calls[axis] = None THEN filters[axis] ELSE RunCall(filters[axis], calls[axis]) ]

\* result.update({...}): the right-hand record overrides
DictUpdate(d, u) ==
    [k \in DOMAIN d \cup DOMAIN u |-> IF k \in DOMAIN u THEN u[k] ELSE d[k]]

\* an output that reports the x posterior on every active axis (what C9 rules out)
PosEstOfX(calls, stepped, axis) ==
    IF calls[axis] = None THEN Zero ELSE stepped["x"].state_model

\* pos_est_x, pos_est_y, pos_est_z: 0, or the value the call on the axis returned
PosEst(calls, stepped, axis) ==
    IF calls[axis] = None THEN Zero ELSE stepped[axis].state_model

\* the record _process_measurement returns, given the filters it has stepped
process_measurement(measurement, track_dimension, calls, stepped) ==
    DictUpdate(measurement,
               [ dimension |-> track_dimension,
                 x_est_pos |-> PosEst(calls, stepped, "x"),
                 y_est_pos |-> PosEst(calls, stepped, "y"),
                 z_est_pos |-> PosEst(calls, stepped, "z") ])

\* the calls of RAKF1D.run in the order _process_measurement makes them
RECURSIVE CallsFrom(_, _)
CallsFrom(calls, i) ==
    IF i > Len(Axes) THEN <<>>
    ELSE (IF calls[Axes[i]] = None THEN <<>> ELSE <<calls[Axes[i]]>>)
           \o CallsFrom(calls, i + 1)

\* a schema check that forgets y_imu_vel (what C2 rules out)
HasRequiredKeysButOne(message_body) ==
    (RequiredKeys \ {"y_imu_vel"}) \subseteq DOMAIN message_body

\* personnel_msg_handler, lines 175-184: the schema check
HasRequiredKeys(message_body) == RequiredKeys \subseteq DOMAIN message_body

\* update_states: every filter that exists is restored from its record
update_states(filters, state_information) ==
    [ axis \in AxisSet |->
        IF filters[axis] # None THEN update_state(filters[axis], state_information[axis])
        ELSE filters[axis] ]

\* "personnel_" + personnel_id
StoreKey(personnel_id) == <<"personnel_", personnel_id>>

\* a lookup that ignores the tag of the record (what C4 rules out)
get_states_of_first_tag(db, personnel_id) ==
    LET db_result == RedisGet(db, StoreKey("a"))
    IN  IF db_result = None THEN None ELSE JsonLoads(db_result)

\* get_states_from_db
get_states_from_db(db, personnel_id) ==
    LET db_result == RedisGet(db, StoreKey(personnel_id))
    IN  IF db_result = None THEN None ELSE JsonLoads(db_result)

\* restore_states_in_db raises AttributeError when an axis filter is None
RestoreFails(filters) == \E axis \in AxisSet : filters[axis] = None

\* a save under the key of every tag of the store (what C26 rules out)
restore_states_for_all_tags(db, filters, personnel_id) ==
    [ key \in DOMAIN db |->
        JsonDumps([axis \in AxisSet |-> state_to_dict(filters[axis])]) ]

\* restore_states_in_db
restore_states_in_db(db, filters, personnel_id) ==
    RedisSet(db, StoreKey(personnel_id),
             JsonDumps([axis \in AxisSet |-> state_to_dict(filters[axis])]))

\* update, lines 266-272: the reduced record
ResultPlm(result) ==
    [ id |-> result["id"],
      x_est_pos |-> result["x_est_pos"],
      y_est_pos |-> result["y_est_pos"],
      z_est_pos |-> result["z_est_pos"],
      timestamp |-> result["timestamp"] ]

\* publish: the message goes to every publisher of that exchange
RECURSIVE PublishFrom(_, _, _, _, _)
PublishFrom(bus, pubs, exchange_name, msg, i) ==
    IF i > Len(pubs) THEN bus
    ELSE PublishFrom(IF exchange_name = pubs[i].exchange_name
                       THEN TransportPublish(bus, pubs[i], msg) ELSE bus,
                     pubs, exchange_name, msg, i + 1)
publish(bus, pubs, exchange_name, msg) == PublishFrom(bus, pubs, exchange_name, msg, 1)

HasPublisher(pubs, exchange_name) ==
    \E i \in 1..Len(pubs) : pubs[i].exchange_name = exchange_name


-----------------------------------------------------------------------------
(* Inputs: tracker configurations, store contents, bus payloads *)

\* bound on the payloads the transport hands to the callback in one run
MaxDeliveries == 3

PerAxis(v) == [x |-> v, y |-> v, z |-> v]

\* localization.trackers[i].algorithm
Algorithm(type, track_dimension, model_type) ==
    [ type |-> type,
      track_dimension |-> track_dimension,
      interval |-> One,
      model |-> [type |-> model_type, coefficient |-> PerAxis(One)],
      error |-> [ model |-> PerAxis(One),
                  measurement |-> [x |-> One, y |-> RInt(4), z |-> RInt(9)],
                  state_error_variance |-> PerAxis(One) ],
      threshold |-> [ residual |-> PerAxis(RInt(3)),
                      adaptive |-> PerAxis(Half),
                      gamma |-> PerAxis(One) ],
      estimator |-> [parameter |-> [count |-> 2]] ]

NoHandler == "None"
Publisher(type, exchange) == [type |-> type, exchange |-> exchange, callback |-> NoHandler]
Subscriber(type, exchange, callback) ==
    [type |-> type, exchange |-> exchange, callback |-> callback]

\* localization.trackers[i].protocol
Protocol(publishers, subscribers) == [publishers |-> publishers, subscribers |-> subscribers]

BothPublishers == <<Publisher("amq", "plm_walker"), Publisher("amq", "visual")>>
OneSubscriber == <<Subscriber("amq", "telemetry", "personnel_msg_handler")>>

StandardProtocol == Protocol(BothPublishers, OneSubscriber)

ProtocolVariants ==
    { \* two subscribers that name the handler
      Protocol(BothPublishers,
               <<Subscriber("amq", "telemetry", "personnel_msg_handler"),
                 Subscriber("amq", "telemetry_b", "personnel_msg_handler")>>),
      \* a subscriber without a handler name, one naming no method
      Protocol(BothPublishers,
               <<Subscriber("amq", "telemetry", NoHandler),
                 Subscriber("amq", "telemetry_b", "no_such_handler"),
                 Subscriber("amq", "telemetry_c", "personnel_msg_handler")>>),
      \* protocol entries that are not amq
      Protocol(<<Publisher("mqtt", "plm_walker")>>, OneSubscriber),
      Protocol(BothPublishers, <<Subscriber("mqtt", "telemetry", "personnel_msg_handler")>>) }

Tracker(algorithm, protocol) == [algorithm |-> algorithm, protocol |-> protocol]

\* the tracker entries a coordinator is constructed from
TrackerConfigs ==
    { Tracker(Algorithm("rakf", d, m), StandardProtocol) :
        d \in 0..4, m \in {UwbImu, PositionOnly} }
    \cup { Tracker(Algorithm("rakf", 3, UwbImu), p) : p \in ProtocolVariants }

TagIds == {"a", "b"}
\* the tag whose state an outside party has put in the store
SeededTags == {"a"}

\* the store as seeded from outside: the snapshot of a freshly built three-axis
\* coordinator of the same configuration under every seeded tag
SeedStateInformation(algorithm) ==
    [ axis \in AxisSet |->
        state_to_dict(AxisFilter([algorithm EXCEPT !.track_dimension = 3], axis)) ]

SeededStore(algorithm) ==
    [ key \in {StoreKey(id) : id \in TagIds} |->
        IF key[2] \in SeededTags THEN JsonDumps(SeedStateInformation(algorithm))
        ELSE None ]

\* a telemetry record of the input schema
Body(id, pos, timestamp) ==
    [ id |-> id, data_aggregator_id |-> "agg", timestamp |-> timestamp,
      x_uwb_pos |-> pos, y_uwb_pos |-> pos + 1, z_uwb_pos |-> pos + 2,
      x_imu_vel |-> 1, y_imu_vel |-> 2, z_imu_vel |-> 3 ]

Restrict(f, keys) == [k \in keys |-> f[k]]

ValidBodies ==
    { Body("a", 1, 1000), Body("a", 7, 2000), Body("b", 1, 1000),
      DictUpdate(Body("a", 2, 500), [rssi |-> 40, dimension |-> 9]) }

\* a record without y_imu_vel
MissingKeyBody == Restrict(Body("a", 1, 1000), RequiredKeys \ {"y_imu_vel"})

\* a decoded JSON value: a dict, or a value of another type
Dict(items) == [type |-> "dict", items |-> items]
NotADict == [type |-> "list", items |-> [elements |-> "none"]]

\* text that json.loads cannot decode
Undecodable == [text |-> "garbage"]

InvalidPayloads == {JsonDumps(Dict(MissingKeyBody)), JsonDumps(NotADict), Undecodable}
Payloads == {JsonDumps(Dict(b)) : b \in ValidBodies} \cup InvalidPayloads

\* a payload that passes the schema validation of the ingest
PassesValidation(payload) ==
    /\ IsJson(payload)
    /\ payload.json.type = "dict"
    /\ RequiredKeys \subseteq DOMAIN payload.json.items


-----------------------------------------------------------------------------
(* The coordinator driven by the tick loop of the service *)

VARIABLES
    config,                   \* the tracker entry given to RAKFLocalization
    pc,                       \* where the loop task stands
    process,                  \* "running", "exited" (sys.exit) or "crashed" (uncaught exception)
    exit_site,                \* the function in which the process ended
    track_dimension,          \* self.track_dimension
    rakf,                     \* self.rakf_x, self.rakf_y, self.rakf_z
    publishers,               \* self.publishers
    subscribers,              \* self.subscribers
    consume_telemetry_queue,  \* self.consume_telemetry_queue, each item with its arrival number
    redis_db,                 \* the persistence store
    bus,                      \* the messages published, in order
    new_measurement,          \* update(): the record taken from the queue
    result,                   \* update(): the record _process_measurement returned
    arrivals,                 \* history: how many items have been put on the queue
    deliveries,               \* history: the payloads handed to the callback so far
    run_log,                  \* history: per processed record, the calls of RAKF1D.run
    bus_arrivals,             \* history: the arrival number behind each message of bus
    tick_start,               \* history: arrivals when the current tick began
    dequeued,                 \* history: how many items have been taken from the queue
    last_update,              \* history: how the last update() ended
    app_pc,                   \* where main() and app() stand
    config_file,              \* the file args.config names: its content, or None
    start_coordinates,        \* args.start, then the local start_coordinates of app()
    tracker_config,           \* app(): what read_config returned
    tracker_index,            \* app(): the position of the for loop over the trackers
    tracker_in_ws,            \* app(): the coordinators constructed so far
    is_sighup_received,       \* the global flag of cli.py
    sighup_pending,           \* a SIGHUP the event loop has not dispatched yet
    rakf1d_arguments,         \* the arguments rakf1d was constructed with
    rakf1d,                   \* a RAKF1D object stepped on its own
    rakf1d_restored,          \* a second RAKF1D object and the snapshot of rakf1d it was
                              \* restored from
    call_log                  \* history: the arguments of the calls of rakf1d.run

vars ==
    << config, pc, process, exit_site, track_dimension, rakf, publishers, subscribers,
       consume_telemetry_queue, redis_db, bus, new_measurement, result, arrivals,
       deliveries, run_log, bus_arrivals, tick_start, dequeued, last_update,
       app_pc, config_file, start_coordinates, tracker_config, tracker_index,
       tracker_in_ws, is_sighup_received, sighup_pending, rakf1d_arguments, rakf1d,
       rakf1d_restored, call_log >>

filter_state == << rakf1d_arguments, rakf1d, rakf1d_restored, call_log >>

app_state ==
    << app_pc, config_file, start_coordinates, tracker_config, tracker_index,
       tracker_in_ws, is_sighup_received, sighup_pending >>

coordinator == << track_dimension, rakf, publishers, subscribers >>
history == << arrivals, deliveries, run_log, bus_arrivals, tick_start, dequeued, last_update >>
tick_state ==
    << config, pc, coordinator, consume_telemetry_queue, redis_db, bus, new_measurement,
       result, history >>

NoFilters == [axis \in AxisSet |-> None]

Init ==
    /\ config \in TrackerConfigs
    /\ pc = "start"
    /\ process = "running"
    /\ exit_site = "none"
    /\ track_dimension = 0
    /\ rakf = NoFilters
    /\ publishers = <<>>
    /\ subscribers = <<>>
    /\ consume_telemetry_queue = <<>>
    /\ redis_db = SeededStore(config.algorithm)
    /\ bus = <<>>
    /\ new_measurement = None
    /\ result = None
    /\ arrivals = 0
    /\ deliveries = <<>>
    /\ run_log = <<>>
    /\ bus_arrivals = <<>>
    /\ tick_start = 0
    /\ dequeued = 0
    /\ last_update = "none"
    /\ app_pc = "loop"
    /\ config_file = None
    /\ start_coordinates = <<>>
    /\ tracker_config = None
    /\ tracker_index = 0
    /\ tracker_in_ws = <<>>
    /\ is_sighup_received = FALSE
    /\ sighup_pending = FALSE
    /\ rakf1d_arguments = None
    /\ rakf1d = None
    /\ rakf1d_restored = None
    /\ call_log = <<>>

Terminate(how, site) ==
    /\ process' = how
    /\ exit_site' = site

\* RAKFLocalization.__init__: exit(-1) on a dimension above 3 or a protocol entry
\* that is not amq
ConstructRejected ==
    /\ process = "running" /\ pc = "start"
    /\ DimensionRejected(config.algorithm.track_dimension)
         \/ ProtocolRejected(config.protocol)
    /\ Terminate("exited", "RAKFLocalization.__init__")
    /\ track_dimension' = config.algorithm.track_dimension
    /\ UNCHANGED << config, pc, rakf, publishers, subscribers, consume_telemetry_queue,
                    redis_db, bus, new_measurement, result, history >>
    /\ UNCHANGED << app_state, filter_state >>

\* RAKFLocalization.__init__: the coordinator is built
Construct ==
    /\ process = "running" /\ pc = "start"
    /\ ~DimensionRejected(config.algorithm.track_dimension)
    /\ ~ProtocolRejected(config.protocol)
    /\ track_dimension' = config.algorithm.track_dimension
    /\ rakf' = [axis \in AxisSet |-> AxisFilter(config.algorithm, axis)]
    /\ publishers' = Transports(config.protocol.publishers)
    /\ subscribers' = Transports(config.protocol.subscribers)
    /\ pc' = "connect"
    /\ UNCHANGED << config, process, exit_site, consume_telemetry_queue, redis_db, bus,
                    new_measurement, result, history >>
    /\ UNCHANGED << app_state, filter_state >>

\* connect: the transports are connected, the loop task reaches the tick loop
Connect ==
    /\ process = "running" /\ pc = "connect"
    /\ pc' = "tick"
    /\ UNCHANGED << config, process, exit_site, coordinator, consume_telemetry_queue,
                    redis_db, bus, new_measurement, result, history >>
    /\ UNCHANGED << app_state, filter_state >>

\* callbacks running also while the loop task is inside update() (what C20 rules out)
SuspendedOrInUpdate == pc \in {"connect", "tick", "pub_plm", "pub_visual", "sleep"}

\* the loop task is suspended: callbacks of the transport may run
Suspended == pc \in {"connect", "pub_plm", "pub_visual", "sleep"}

\* how many subscribers dispatch the record to a handler of the coordinator
RECURSIVE DispatchCount(_, _)
DispatchCount(subs, i) ==
    IF i > Len(subs) THEN 0
    ELSE (IF /\ get_callback_handler_name(subs[i]) # NoHandler
             /\ get_callback_handler_name(subs[i]) \in HandlerNames
            THEN 1 ELSE 0) + DispatchCount(subs, i + 1)

\* the items personnel_msg_handler puts on the queue, called n times with one record
\* (every handler puts the same dict object: the items share their delivery)
RECURSIVE Puts(_, _, _, _)
Puts(message_body, n, first, delivery) ==
    IF n = 0 THEN <<>>
    ELSE <<[item |-> message_body, arrival |-> first, delivery |-> delivery]>>
           \o Puts(message_body, n - 1, first + 1, delivery)

\* what the callback puts on the queue for a decoded dict
Enqueued(message_body, subs, first, delivery) ==
    IF HasRequiredKeys(message_body)
      THEN Puts(message_body, DispatchCount(subs, 1), first, delivery) ELSE <<>>

\* _consume_telemetry_msg: json.loads raises, or a handler raises on a value that
\* is not a dict: the except branch ends the process
ConsumeFails(payload, subs) ==
    \/ ~IsJson(payload)
    \/ /\ IsJson(payload)
       /\ JsonLoads(payload).type # "dict"
       /\ DispatchCount(subs, 1) > 0

\* _consume_telemetry_msg with the handlers it awaits
ConsumeTelemetryMsg(payload) ==
    /\ process = "running" /\ Suspended
    /\ Len(deliveries) < MaxDeliveries
    /\ deliveries' = Append(deliveries, payload)
    /\ IF ConsumeFails(payload, subscribers)
         THEN /\ Terminate("exited", "_consume_telemetry_msg")
              /\ UNCHANGED << consume_telemetry_queue, arrivals >>
         ELSE LET body == JsonLoads(payload).items
                  puts == IF JsonLoads(payload).type = "dict"
                            THEN Enqueued(body, subscribers, arrivals + 1,
                                          Len(deliveries) + 1)
                            ELSE <<>>
              IN  /\ consume_telemetry_queue' = consume_telemetry_queue \o puts
                  /\ arrivals' = arrivals + Len(puts)
                  /\ UNCHANGED << process, exit_site >>
    /\ UNCHANGED << config, pc, coordinator, redis_db, bus, new_measurement, result,
                    run_log, bus_arrivals, tick_start, dequeued, last_update >>
    /\ UNCHANGED << app_state, filter_state >>

\* a queue that hands out its newest item (what C5 rules out)
QueueGetNewest(q) == q[Len(q)]

\* queue.SimpleQueue.get_nowait: the oldest item
QueueGet(q) == Head(q)
QueueRest(q) == Tail(q)

\* result = measurement; result.update(...): the record is changed in place, and
\* with it every queued item that is the same object
UpdatedInPlace(q, taken, merged) ==
    [ i \in 1..Len(q) |->
        IF q[i].delivery = taken.delivery THEN [q[i] EXCEPT !.item = merged] ELSE q[i] ]

\* update() when the queue is empty
UpdateEmpty ==
    /\ process = "running" /\ pc = "tick"
    /\ consume_telemetry_queue = <<>>
    /\ pc' = "sleep"
    /\ new_measurement' = None
    /\ result' = None
    /\ tick_start' = arrivals
    /\ last_update' = "empty"
    /\ UNCHANGED << config, process, exit_site, coordinator, consume_telemetry_queue,
                    redis_db, bus, arrivals, deliveries, run_log, bus_arrivals, dequeued >>
    /\ UNCHANGED << app_state, filter_state >>

\* update() when the store holds nothing for the tag of the record
UpdateSkip ==
    /\ process = "running" /\ pc = "tick"
    /\ consume_telemetry_queue # <<>>
    /\ \E taken \in {QueueGet(consume_telemetry_queue)} :
         /\ get_states_from_db(redis_db, taken.item["id"]) = None
         /\ new_measurement' = taken
    /\ result' = None
    /\ consume_telemetry_queue' = QueueRest(consume_telemetry_queue)
    /\ pc' = "sleep"
    /\ tick_start' = arrivals
    /\ dequeued' = dequeued + 1
    /\ last_update' = "skipped"
    /\ UNCHANGED << config, process, exit_site, coordinator, redis_db, bus,
                    arrivals, deliveries, run_log, bus_arrivals >>
    /\ UNCHANGED << app_state, filter_state >>

\* update() when the store holds the state of the tag: restore, step, save, and
\* go on to the first publish (restore_states_in_db raises: the process ends)
UpdateProcess ==
    /\ process = "running" /\ pc = "tick"
    /\ consume_telemetry_queue # <<>>
    /\ \E taken \in {QueueGet(consume_telemetry_queue)} :
       \E state_info \in {get_states_from_db(redis_db, taken.item["id"])} :
         /\ state_info # None
         /\ \E restored \in {update_states(rakf, state_info)} :
            \E calls \in {AxisCalls(restored, track_dimension, taken.item)} :
            \E stepped \in {ProcessedFilters(restored, calls)} :
            \E merged \in {process_measurement(taken.item, track_dimension, calls, stepped)} :
              /\ new_measurement' = taken
              /\ rakf' = stepped
              /\ result' = merged
              /\ consume_telemetry_queue' =
                    UpdatedInPlace(QueueRest(consume_telemetry_queue), taken, merged)
              /\ run_log' = Append(run_log,
                                   [ arrival |-> taken.arrival,
                                     measurement |-> taken.item,
                                     calls |-> CallsFrom(calls, 1) ])
              /\ IF RestoreFails(stepped)
                   THEN /\ Terminate("crashed", "restore_states_in_db")
                        /\ last_update' = "crashed"
                        /\ UNCHANGED << redis_db, pc >>
                   ELSE /\ redis_db' = restore_states_in_db(redis_db, stepped,
                                                            taken.item["id"])
                        /\ last_update' = "processed"
                        /\ pc' = IF HasPublisher(publishers, "plm_walker") THEN "pub_plm"
                                 ELSE IF HasPublisher(publishers, "visual")
                                        THEN "pub_visual"
                                        ELSE "sleep"
                        /\ UNCHANGED << process, exit_site >>
    /\ tick_start' = arrivals
    /\ dequeued' = dequeued + 1
    /\ UNCHANGED << config, track_dimension, publishers, subscribers, bus, arrivals,
                    deliveries, bus_arrivals >>
    /\ UNCHANGED << app_state, filter_state >>

Published(before, after) == Len(after) - Len(before)

\* update(): await self.publish(exchange_name='plm_walker', ...)
PublishPlm ==
    /\ process = "running" /\ pc = "pub_plm"
    /\ bus' = publish(bus, publishers, "plm_walker", JsonDumps(ResultPlm(result)))
    /\ bus_arrivals' = bus_arrivals \o
                       [i \in 1..Published(bus, bus') |-> new_measurement.arrival]
    /\ pc' = IF HasPublisher(publishers, "visual") THEN "pub_visual" ELSE "sleep"
    /\ UNCHANGED << config, process, exit_site, coordinator, consume_telemetry_queue,
                    redis_db, new_measurement, result, arrivals, deliveries, run_log,
                    tick_start, dequeued, last_update >>
    /\ UNCHANGED << app_state, filter_state >>

\* update(): await self.publish(exchange_name='visual', ...)
PublishVisual ==
    /\ process = "running" /\ pc = "pub_visual"
    /\ bus' = publish(bus, publishers, "visual", JsonDumps(result))
    /\ bus_arrivals' = bus_arrivals \o
                       [i \in 1..Published(bus, bus') |-> new_measurement.arrival]
    /\ pc' = "sleep"
    /\ UNCHANGED << config, process, exit_site, coordinator, consume_telemetry_queue,
                    redis_db, new_measurement, result, arrivals, deliveries, run_log,
                    tick_start, dequeued, last_update >>
    /\ UNCHANGED << app_state, filter_state >>

\* await asyncio.sleep(each_tracker.interval) returns: the next tick
Wake ==
    /\ process = "running" /\ pc = "sleep"
    /\ pc' = "tick"
    /\ UNCHANGED << config, process, exit_site, coordinator, consume_telemetry_queue,
                    redis_db, bus, new_measurement, result, history >>
    /\ UNCHANGED << app_state, filter_state >>

Next ==
    \/ ConstructRejected
    \/ Construct
    \/ Connect
    \/ \E payload \in Payloads : ConsumeTelemetryMsg(payload)
    \/ UpdateEmpty
    \/ UpdateSkip
    \/ UpdateProcess
    \/ PublishPlm
    \/ PublishVisual
    \/ Wake

Spec == Init /\ [][Next]_vars


-----------------------------------------------------------------------------
(* The service entry point: main(), app() and get_tracker() *)

\* bound on the tracker entries of a configuration file
MaxTrackers == 2

\* the keyword arguments get_tracker passes to RAKFLocalization(...)
ConstructorArguments == {"event_loop", "config_file", "id", "start_coordinates"}
\* the parameters of RAKFLocalization.__init__ besides self
ConstructorParameters == {"event_loop", "config_file"}
\* a call binds when every keyword names a parameter; otherwise TypeError
CallBinds(arguments, parameters) == arguments \subseteq parameters

\* RAKFLocalization(...) as app() would hold it in tracker_in_ws
Coordinator(tracker) ==
    [ track_dimension |-> tracker.algorithm.track_dimension,
      interval |-> tracker.algorithm.interval,
      rakf |-> [axis \in AxisSet |-> AxisFilter(tracker.algorithm, axis)],
      publishers |-> Transports(tracker.protocol.publishers),
      subscribers |-> Transports(tracker.protocol.subscribers) ]

Exits(site) == [exits |-> TRUE, site |-> site]
Returns(value) == [exits |-> FALSE, value |-> value]

\* get_tracker: the coordinator, or sys.exit(-1) on any exception raised on the way
get_tracker(tracker, algorithm) ==
    IF algorithm = "RAKF"
      THEN IF ~CallBinds(ConstructorArguments, ConstructorParameters)
             THEN Exits("get_tracker")
           ELSE IF \/ DimensionRejected(tracker.algorithm.track_dimension)
                   \/ ProtocolRejected(tracker.protocol)
             THEN Exits("RAKFLocalization.__init__")
           ELSE Returns(Coordinator(tracker))
      ELSE Exits("get_tracker")

\* app(), lines 51-62: the start coordinates padded or cut to three
NormalizeStart(start) ==
    [i \in 1..3 |-> IF i <= Len(start) THEN start[i] ELSE 0]

\* tracker entries of a configuration file
WithoutProtocol(tracker) == [algorithm |-> tracker.algorithm]
AppTrackers ==
    { Tracker(Algorithm("rakf", 3, UwbImu), StandardProtocol),
      Tracker(Algorithm("rakf", 2, PositionOnly), StandardProtocol),
      Tracker(Algorithm("ekf", 3, UwbImu), StandardProtocol),
      Tracker(Algorithm("rakf", 3, UwbImu),
              Protocol(<<Publisher("mqtt", "plm_walker")>>, OneSubscriber)),
      WithoutProtocol(Tracker(Algorithm("rakf", 3, UwbImu), StandardProtocol)) }

TrackerLists ==
    UNION { [1..n -> AppTrackers] : n \in 0..MaxTrackers }

\* the YAML documents the file may hold
Documents ==
    { [localization |-> [version |-> "1.0", trackers |-> ts]] : ts \in TrackerLists }
    \cup { [localization |-> [trackers |-> ts]] : ts \in TrackerLists }
    \cup { [localization |-> [version |-> "1.0"]], [other |-> "none"] }

\* args.start: nargs='+' gives at least one value
StartArguments == { <<1>>, <<1, 2>>, <<1, 2, 3>>, <<1, 2, 3, 4>> }

InitApp ==
    /\ config_file \in Documents \cup {None}
    /\ start_coordinates \in StartArguments
    /\ app_pc = "main"
    /\ tracker_config = None
    /\ tracker_index = 0
    /\ tracker_in_ws = <<>>
    /\ is_sighup_received = FALSE
    /\ sighup_pending = FALSE
    /\ rakf1d_arguments = None
    /\ rakf1d = None
    /\ rakf1d_restored = None
    /\ call_log = <<>>
    /\ process = "running"
    /\ exit_site = "none"
    /\ config = None
    /\ pc = "start"
    /\ track_dimension = 0
    /\ rakf = NoFilters
    /\ publishers = <<>>
    /\ subscribers = <<>>
    /\ consume_telemetry_queue = <<>>
    /\ redis_db = <<>>
    /\ bus = <<>>
    /\ new_measurement = None
    /\ result = None
    /\ arrivals = 0
    /\ deliveries = <<>>
    /\ run_log = <<>>
    /\ bus_arrivals = <<>>
    /\ tick_start = 0
    /\ dequeued = 0
    /\ last_update = "none"

\* signal_handler, run by the event loop while the task of app() is suspended
signal_handler(flag, pending) == flag \/ pending

\* the kernel delivers SIGHUP once main() has installed the handler (line 131);
\* the loop runs the handler at the next suspension
Sighup ==
    /\ process = "running" /\ app_pc # "main"
    /\ ~sighup_pending
    /\ sighup_pending' = TRUE
    /\ UNCHANGED << app_pc, config_file, start_coordinates, tracker_config, tracker_index,
                    tracker_in_ws, is_sighup_received, process, exit_site, tick_state, filter_state >>

\* main(): sys.exit() when the file is not there, else the loop runs app()
Main ==
    /\ process = "running" /\ app_pc = "main"
    /\ IF config_file = None
         THEN /\ Terminate("exited", "main")
              /\ UNCHANGED app_pc
         ELSE /\ app_pc' = "app"
              /\ UNCHANGED << process, exit_site >>
    /\ UNCHANGED << config_file, start_coordinates, tracker_config, tracker_index,
                    tracker_in_ws, is_sighup_received, sighup_pending, tick_state, filter_state >>

\* app(), lines 48-62
AppStart ==
    /\ process = "running" /\ app_pc = "app"
    /\ start_coordinates' = NormalizeStart(start_coordinates)
    /\ tracker_in_ws' = <<>>
    /\ app_pc' = "read_config"
    /\ UNCHANGED << config_file, tracker_config, tracker_index, is_sighup_received,
                    sighup_pending, process, exit_site, tick_state, filter_state >>

\* read_config raises when the document has no 'localization'
ReadConfigRaises(document) == "localization" \notin DOMAIN document
read_config(document) == document["localization"]

\* app(), lines 66-72: an exception of read_config breaks the outer loop and app()
\* returns; a document without 'version' raises KeyError outside any try
ReadConfig ==
    /\ process = "running" /\ app_pc = "read_config"
    /\ IF ReadConfigRaises(config_file)
         THEN /\ Terminate("finished", "app")
              /\ UNCHANGED << app_pc, tracker_config, tracker_index >>
         ELSE IF "version" \notin DOMAIN read_config(config_file)
         THEN /\ Terminate("crashed", "app")
              /\ tracker_config' = read_config(config_file)
              /\ UNCHANGED << app_pc, tracker_index >>
         ELSE /\ tracker_config' = read_config(config_file)
              /\ tracker_index' = 1
              /\ app_pc' = "instantiate"
              /\ UNCHANGED << process, exit_site >>
    /\ UNCHANGED << config_file, start_coordinates, tracker_in_ws, is_sighup_received,
                    sighup_pending, tick_state, filter_state >>

\* app(), lines 74-96: one pass of the for loop over tracker_config["trackers"]
Instantiate ==
    /\ process = "running" /\ app_pc = "instantiate"
    /\ IF "trackers" \notin DOMAIN tracker_config
         THEN \* KeyError inside the try: break, app() returns
              /\ Terminate("finished", "app")
              /\ UNCHANGED << app_pc, tracker_index, tracker_in_ws, is_sighup_received,
                              sighup_pending >>
         ELSE IF tracker_index > Len(tracker_config["trackers"])
         THEN /\ app_pc' = "loop"
              /\ UNCHANGED << process, exit_site, tracker_index, tracker_in_ws,
                              is_sighup_received, sighup_pending >>
         ELSE \E tracker \in {tracker_config["trackers"][tracker_index]} :
              IF "protocol" \notin DOMAIN tracker
                THEN /\ Terminate("exited", "app")
                     /\ UNCHANGED << app_pc, tracker_index, tracker_in_ws,
                                     is_sighup_received, sighup_pending >>
              ELSE IF tracker.algorithm.type = "rakf"
                THEN \E tracker_rakf \in {get_tracker(tracker, "RAKF")} :
                     IF tracker_rakf.exits
                       THEN /\ Terminate("exited", tracker_rakf.site)
                            /\ UNCHANGED << app_pc, tracker_index, tracker_in_ws,
                                            is_sighup_received, sighup_pending >>
                       ELSE \* await tracker_rakf.connect(): the loop may run the handler
                            /\ tracker_in_ws' = Append(tracker_in_ws, tracker_rakf.value)
                            /\ tracker_index' = tracker_index + 1
                            /\ is_sighup_received' =
                                 signal_handler(is_sighup_received, sighup_pending)
                            /\ sighup_pending' = FALSE
                            /\ UNCHANGED << app_pc, process, exit_site >>
              ELSE /\ Terminate("exited", "app")
                   /\ UNCHANGED << app_pc, tracker_index, tracker_in_ws,
                                   is_sighup_received, sighup_pending >>
    /\ UNCHANGED << config_file, start_coordinates, tracker_config, tick_state, filter_state >>

\* app(), lines 99-109: the test of the while loop; with the flag set the trackers
\* are "deleted" (tracker_in_ws keeps them) and the configuration is read again;
\* with no tracker the sleep reads the unbound each_tracker
Loop ==
    /\ process = "running" /\ app_pc = "loop"
    /\ IF is_sighup_received
         THEN /\ is_sighup_received' = FALSE
              /\ app_pc' = "read_config"
              /\ UNCHANGED << process, exit_site, sighup_pending >>
         ELSE IF tracker_in_ws = <<>>
         THEN /\ Terminate("crashed", "app")
              /\ UNCHANGED << app_pc, is_sighup_received, sighup_pending >>
         ELSE \* the updates of the trackers, then the sleep
              /\ is_sighup_received' = signal_handler(is_sighup_received, sighup_pending)
              /\ sighup_pending' = FALSE
              /\ UNCHANGED << app_pc, process, exit_site >>
    /\ UNCHANGED << config_file, start_coordinates, tracker_config, tracker_index,
                    tracker_in_ws, tick_state, filter_state >>

NextApp ==
    \/ Sighup
    \/ Main
    \/ AppStart
    \/ ReadConfig
    \/ Instantiate
    \/ Loop

SpecApp == InitApp /\ [][NextApp]_vars

\* a configuration the service is meant to start with: readable, versioned, at
\* least one tracker, every tracker rakf over amq with a dimension of 1 to 3
WellFormedTracker(tracker) ==
    /\ "protocol" \in DOMAIN tracker
    /\ tracker.algorithm.type = "rakf"
    /\ ~ProtocolRejected(tracker.protocol)
    /\ tracker.algorithm.track_dimension \in 1..3

WellFormedConfig ==
    /\ config_file # None
    /\ "localization" \in DOMAIN config_file
    /\ {"version", "trackers"} \subseteq DOMAIN config_file["localization"]
    /\ Len(config_file["localization"]["trackers"]) > 0
    /\ \A i \in 1..Len(config_file["localization"]["trackers"]) :
         WellFormedTracker(config_file["localization"]["trackers"][i])

\* C1: started with a well-formed configuration, the service constructs its
\* coordinators and goes on to the tick loop: the process does not end while the
\* coordinators are constructed.
C1_StartupConstructs ==
    WellFormedConfig => process = "running"

-----------------------------------------------------------------------------
(* RAKF1D stepped on its own: constructor arguments and calls from small sets *)

\* bound on the calls of run made on one filter
MaxSteps == 3

\* float('inf') and the float nan, as <<1, 0>> and <<0, 0>>
Inf == <<1, 0>>
NaN == <<0, 0>>

\* the keyword arguments of RAKF1D(...) besides initial_state
Arguments(A, Q, R, P0, c, c0, gamma, count, model_type) ==
    [ system_model |-> A, system_model_error |-> Q, measurement_error |-> R,
      state_error_variance |-> P0, residual_threshold |-> c, adaptive_threshold |-> c0,
      estimator_parameter_count |-> count, gamma |-> gamma, model_type |-> model_type ]

ModelTypes == {UwbImu, PositionOnly}

FilterArguments ==
    { Arguments(One, One, One, One, RInt(3), Half, One, n, m) : n \in {1, 2}, m \in ModelTypes }
    \cup { Arguments(One, One, RInt(4), One, RInt(3), Half, Two, 2, m) : m \in ModelTypes }
    \cup { Arguments(One, One, RInt(4), One, Inf, Half, One, 2, m) : m \in ModelTypes }
    \cup { Arguments(Half, One, One, RInt(4), RInt(3), Half, One, 1, PositionOnly),
           \* no process noise and an exactly known initial state
           Arguments(One, Zero, One, Zero, RInt(3), Half, One, 1, PositionOnly),
           \* a residual threshold that the delta of a first measurement of 50 meets
           Arguments(One, One, One, One, RInt(25), Half, One, 1, UwbImu),
           \* a small gamma
           Arguments(One, One, One, One, RInt(3), Half, <<1, 50>>, 1, PositionOnly) }

\* RAKF1D(initial_state=0, ...)
NewFilter(arguments) ==
    RAKF1D_init(Zero, arguments.system_model, arguments.system_model_error,
                arguments.measurement_error, arguments.state_error_variance,
                arguments.residual_threshold, arguments.adaptive_threshold,
                arguments.estimator_parameter_count, arguments.gamma,
                arguments.model_type)

\* the calls of run: position_only callers pass no velocity
Call(current_measurement, timestamp_ms, velocity) ==
    [ current_measurement |-> current_measurement, timestamp_ms |-> timestamp_ms,
      velocity |-> velocity, acceleration |-> Zero ]

Calls(model_type) ==
    { Call(RInt(z), t, v) :
        z \in {1, 50}, t \in {500, 1000},
        v \in IF model_type = UwbImu THEN {Two} ELSE {Zero} }

\* the step as far as equation 37
BeforeDelta(f, call) ==
    Estimate(ShiftBuffers(
        ResidualWeight(Residual(Predict(f, call.timestamp_ms, call.velocity,
                                        call.acceleration),
                                call.current_measurement)),
        call.current_measurement, call.velocity, call.acceleration))

\* equation 36 divides 0 by 0: numpy warns and yields nan
ZeroByZero(b) ==
    /\ b.state_error_variance_prediction = Zero
    /\ b.state_estimation = b.state_model_prediction

\* run when equation 36 yields nan: the comparisons of equation 38 are false,
\* adaptive_factor, gain, state_model and state_error_variance become nan, the
\* weight enters its buffer and run returns nan
NonFiniteRun(b) ==
    [ b EXCEPT
        !.delta_state_estimate = NaN,
        !.adaptive_factor = NaN,
        !.gain = NaN,
        !.state_model = NaN,
        !.state_error_variance = NaN,
        !.residual_weight_buffer = RollWrite(b.residual_weight_buffer, b.residual_weight) ]

IsFinite(f) == f.state_model # NaN

\* equations 36 to 42 on the filter that holds the estimate of equation 37
AfterDelta(b) ==
    IF ZeroByZero(b) THEN NonFiniteRun(b)
    ELSE Correct(Gain(AdaptiveFactor(DeltaStateEstimate(b))))

\* rakf1d.run(**call)
RunOutcome(f, call) == AfterDelta(BeforeDelta(f, call))

\* a fresh object of the same arguments restored from the snapshot of f
Restored(arguments, f) ==
    [ object |-> update_state(NewFilter(arguments), state_to_dict(f)),
      snapshot |-> state_to_dict(f) ]

InitFilter ==
    /\ rakf1d_arguments \in FilterArguments
    /\ rakf1d = NewFilter(rakf1d_arguments)
    /\ rakf1d_restored = None
    /\ call_log = <<>>
    /\ process = "running"
    /\ exit_site = "none"
    /\ app_pc = "loop"
    /\ config_file = None
    /\ start_coordinates = <<>>
    /\ tracker_config = None
    /\ tracker_index = 0
    /\ tracker_in_ws = <<>>
    /\ is_sighup_received = FALSE
    /\ sighup_pending = FALSE
    /\ config = None
    /\ pc = "start"
    /\ track_dimension = 0
    /\ rakf = NoFilters
    /\ publishers = <<>>
    /\ subscribers = <<>>
    /\ consume_telemetry_queue = <<>>
    /\ redis_db = <<>>
    /\ bus = <<>>
    /\ new_measurement = None
    /\ result = None
    /\ arrivals = 0
    /\ deliveries = <<>>
    /\ run_log = <<>>
    /\ bus_arrivals = <<>>
    /\ tick_start = 0
    /\ dequeued = 0
    /\ last_update = "none"

\* one call of run on rakf1d and, if there is one, on the restored object; on a
\* filter that holds nan the weighted least squares fit raises and run's except
\* branch calls exit(-1)
Run ==
    /\ process = "running"
    /\ Len(call_log) < MaxSteps
    /\ \E call \in Calls(rakf1d_arguments.model_type) :
         /\ call_log' = Append(call_log, call)
         /\ IF IsFinite(rakf1d)
              THEN /\ rakf1d' = RunOutcome(rakf1d, call)
                   /\ rakf1d_restored' =
                        IF rakf1d_restored = None THEN None
                        ELSE [rakf1d_restored EXCEPT
                                !.object = RunOutcome(rakf1d_restored.object, call)]
                   /\ UNCHANGED << process, exit_site >>
              ELSE /\ Terminate("exited", "RAKF1D.run")
                   /\ UNCHANGED << rakf1d, rakf1d_restored >>
    /\ UNCHANGED << rakf1d_arguments, app_state, tick_state >>

\* state_to_dict on rakf1d, update_state on a fresh object
SnapshotRestore ==
    /\ process = "running"
    /\ rakf1d_restored = None
    /\ rakf1d_restored' = Restored(rakf1d_arguments, rakf1d)
    /\ UNCHANGED << rakf1d_arguments, rakf1d, call_log, process, exit_site, app_state,
                    tick_state >>

NextFilter ==
    \/ Run
    \/ SnapshotRestore

SpecFilter == InitFilter /\ [][NextFilter]_vars

-----------------------------------------------------------------------------
(* Properties of the coordinator and its tick loop *)

Constructed == pc # "start"
ConstructedFilters == [axis \in AxisSet |-> AxisFilter(config.algorithm, axis)]
ValidSeen == \E i \in 1..Len(deliveries) : PassesValidation(deliveries[i])
MissingKeySeen ==
    \E i \in 1..Len(deliveries) : deliveries[i] = JsonDumps(Dict(MissingKeyBody))
LastDelivery == deliveries[Len(deliveries)]

\* C2: a record that lacks one of the nine required keys is never on the ingest
\* queue; while no record with all nine keys has been delivered, the queue is
\* empty, nothing has been published and every axis filter is as constructed.
C2_MissingKeyNeverQueued ==
    /\ \A i \in 1..Len(consume_telemetry_queue) :
         RequiredKeys \subseteq DOMAIN consume_telemetry_queue[i].item
    /\ (Constructed /\ ~ValidSeen) =>
         /\ consume_telemetry_queue = <<>>
         /\ arrivals = 0
         /\ bus = <<>>
         /\ run_log = <<>>
         /\ rakf = ConstructedFilters

\* a record without y_imu_vel was delivered and dropped, and a tick has run since
C2_Witness ==
    /\ MissingKeySeen /\ ~ValidSeen
    /\ process = "running" /\ last_update = "empty" /\ pc = "sleep"
    /\ Len(deliveries) = MaxDeliveries

\* C3: a payload that fails schema validation (undecodable text, a value that is
\* not a record, a record missing a key) is dropped: the callback does not end
\* the process.
C3_InvalidMessageRecoverable ==
    (Len(deliveries) > 0 /\ ~PassesValidation(LastDelivery)) =>
        exit_site # "_consume_telemetry_msg"

\* C4: when the store holds nothing under personnel_<id> for the record at the
\* head of the queue, update() steps no filter, writes nothing to the store,
\* publishes nothing, takes the record off the queue and the loop goes on.
C4_AbsentStateSkips ==
    [][ ( /\ process = "running" /\ pc = "tick"
          /\ consume_telemetry_queue # <<>>
          /\ RedisGet(redis_db, StoreKey(Head(consume_telemetry_queue).item["id"])) = None )
        => ( /\ rakf' = rakf
             /\ redis_db' = redis_db
             /\ bus' = bus
             /\ run_log' = run_log
             /\ consume_telemetry_queue' = Tail(consume_telemetry_queue)
             /\ process' = "running"
             /\ pc' = "sleep" ) ]_vars

\* a record of a tag the store does not hold has been skipped, and the next record
\* of the queue has then been processed
C4_Witness ==
    /\ process = "running"
    /\ dequeued >= 2
    /\ last_update = "processed"
    /\ \E i \in 1..Len(deliveries) :
         /\ PassesValidation(deliveries[i])
         /\ RedisGet(redis_db, StoreKey(deliveries[i].json.items["id"])) = None
    /\ Len(run_log) = 1 /\ run_log[1].arrival = 2

\* how many messages of an arrival are on an exchange
CountOn(exchange, arrival) ==
    Cardinality({i \in 1..Len(bus) : bus[i].exchange = exchange /\ bus_arrivals[i] = arrival})

\* C5: records are processed in the order they were put on the queue: the filter
\* steps follow the arrival order, so do the publishes, and when a record is
\* stepped every record stepped before it has been published on both exchanges.
C5_ArrivalOrder ==
    /\ \A i, j \in 1..Len(run_log) : i < j => run_log[i].arrival < run_log[j].arrival
    /\ \A i, j \in 1..Len(bus) : i < j => bus_arrivals[i] <= bus_arrivals[j]
    /\ \A i, j \in 1..Len(bus) :
         (i < j /\ bus[i].exchange = bus[j].exchange) => bus_arrivals[i] < bus_arrivals[j]
    /\ \A i \in 1..Len(bus) : \E k \in 1..Len(run_log) : run_log[k].arrival = bus_arrivals[i]
    /\ \A k \in 1..(Len(run_log) - 1) :
         /\ CountOn("plm_walker", run_log[k].arrival) = 1
         /\ CountOn("visual", run_log[k].arrival) = 1

\* two records were stepped and published while a third arrived in between
C5_Witness ==
    /\ Len(run_log) >= 2
    /\ Len(bus) >= 4
    /\ arrivals >= 3

\* C6: a tick drains the queue: when the loop goes to sleep, every record that
\* was on the queue when the tick began has been taken off it.
C6_TickDrainsQueue ==
    (process = "running" /\ pc = "sleep") => dequeued >= tick_start

\* C7: every estimate a filter step produced is published on plm_walker and on
\* visual: once update() is over, each stepped record has one message on each.
C7_PublishedOnBoth ==
    (pc \in {"tick", "sleep"} \/ process # "running") =>
        \A k \in 1..Len(run_log) :
            run_log[k].calls # <<>> =>
                /\ CountOn("plm_walker", run_log[k].arrival) = 1
                /\ CountOn("visual", run_log[k].arrival) = 1

\* the call the claim expects on an axis for a record
ExpectedCall(axis, measurement) ==
    [ axis |-> axis,
      current_measurement |-> RInt(measurement[UwbPosKey[axis]]),
      velocity |-> IF config.algorithm.model.type = UwbImu
                     THEN RInt(measurement[ImuVelKey[axis]]) ELSE Zero,
      acceleration |-> Zero,
      timestamp_ms |-> measurement["timestamp"] ]

IsActive(axis) == AxisOrder[axis] < config.algorithm.track_dimension
ActiveAxes == SelectSeq(Axes, IsActive)
Last(buf) == buf[Len(buf)]

\* C8: for each processed record every active axis is stepped once, in the order
\* x, y, z, with z = <axis>_uwb_pos, t = timestamp, v = <axis>_imu_vel and a = 0
\* under uwb_imu, v = a = 0 under position_only; no inactive axis is stepped, and
\* the filters show the step of the last record.
C8_AxisRouting ==
    /\ \A k \in 1..Len(run_log) :
         run_log[k].calls =
            [j \in 1..Len(ActiveAxes) |-> ExpectedCall(ActiveAxes[j], run_log[k].measurement)]
    /\ run_log # <<>> =>
         \A axis \in AxisSet :
            IF IsActive(axis)
              THEN LET call == ExpectedCall(axis, Last(run_log).measurement)
                   IN  /\ rakf[axis].time_previous = call.timestamp_ms
                       /\ Last(rakf[axis].measurement_buffer) = call.current_measurement
                       /\ config.algorithm.model.type = UwbImu =>
                            /\ Last(rakf[axis].velocity_buffer) = call.velocity
                            /\ Last(rakf[axis].acceleration_buffer) = call.acceleration
              ELSE rakf[axis] = None

\* a record was processed by a two-axis uwb_imu coordinator
C8_Witness ==
    /\ run_log # <<>>
    /\ config.algorithm.track_dimension = 2
    /\ config.algorithm.model.type = UwbImu
    /\ Len(Last(run_log).calls) = 2

ResultKeys == {"dimension", "x_est_pos", "y_est_pos", "z_est_pos"}

FilterCount == Cardinality({axis \in AxisSet : rakf[axis] # None})

\* C10: a coordinator is constructed only with a dimension in {1,2,3}, and then
\* holds exactly that many filters, x first, then y, then z.
C10_DimensionInRange ==
    (Constructed /\ process = "running") =>
        /\ track_dimension \in {1, 2, 3}
        /\ FilterCount = track_dimension
        /\ \A axis \in AxisSet : (rakf[axis] # None) <=> AxisOrder[axis] < track_dimension

-----------------------------------------------------------------------------
(* Properties of the filter stepped on its own *)

\* the last call of run returned normally
Stepped == call_log # <<>> /\ process = "running"

-----------------------------------------------------------------------------
(* Saving the state after a processed message *)

\* the value stored for the tag of the message taken in this tick
SavedFor(measurement) == get_states_from_db(redis_db, measurement.item["id"])

\* C12: for a coordinator of dimension 1, 2 or 3, saving the state after a
\* processed message succeeds: the process does not end in restore_states_in_db,
\* and the value stored for the tag holds a filter record for every active axis.
C12_SaveSucceeds ==
    (Constructed /\ track_dimension \in {1, 2, 3} /\ run_log # <<>>) =>
        /\ exit_site # "restore_states_in_db"
        /\ last_update = "processed" =>
              \A i \in 1..Len(ActiveAxes) :
                  SavedFor(new_measurement)[ActiveAxes[i]] = state_to_dict(rakf[ActiveAxes[i]])


\* C13: after every call of run that returned, the posterior variance is a
\* number and is not negative.
C13_VarianceNonNegative ==
    Stepped =>
        /\ rakf1d.state_error_variance # NaN
        /\ RLe(Zero, rakf1d.state_error_variance)


\* a step of the behaviour in which a call of run returned
RunReturned == Len(call_log') > Len(call_log) /\ process' = "running"

\* C14 as stated: time_previous never decreases across calls of run that return.
C14_TimeNeverDecreases ==
    [][RunReturned => rakf1d'.time_previous >= rakf1d.time_previous]_vars

\* C14: every call of run that returns records its timestamp as time_previous,
\* so time_previous decreases exactly when the call's timestamp is earlier than
\* the one recorded before: it never decreases when timestamps arrive in order.
C14_TimeFollowsTimestamps ==
    [][RunReturned =>
          /\ rakf1d'.time_previous = Last(call_log').timestamp_ms
          /\ (rakf1d'.time_previous >= rakf1d.time_previous)
                <=> (Last(call_log').timestamp_ms >= rakf1d.time_previous)]_vars

\* two calls with timestamps in order have returned
C14_Witness ==
    /\ Stepped
    /\ Len(call_log) = 2
    /\ call_log[1].timestamp_ms < call_log[2].timestamp_ms
    /\ rakf1d.time_previous = call_log[2].timestamp_ms


\* the sliding buffers of a filter that a step of the given model type writes
SlidingBuffers(f) ==
    << f.measurement_buffer, f.position_buffer, f.residual_weight_buffer >>
        \o (IF f.model_type = UwbImu THEN << f.velocity_buffer, f.acceleration_buffer >>
            ELSE << >>)

\* the values a call of run writes last, in the order of SlidingBuffers
Newest(before, after, call) ==
    << call.current_measurement, before.state_model, after.residual_weight >>
        \o (IF before.model_type = UwbImu THEN << call.velocity, call.acceleration >>
            ELSE << >>)

\* buf shifted left by one with value in the last slot
IsShiftOf(new, old, value) ==
    /\ Len(new) = Len(old)
    /\ \A i \in 1..(Len(old) - 1) : new[i] = old[i + 1]
    /\ new[Len(new)] = value

\* every sliding buffer of the filter has the configured length
BuffersHaveLength(f, count) ==
    \A k \in 1..Len(SlidingBuffers(f)) : Len(SlidingBuffers(f)[k]) = count

\* C15: every sliding buffer has length N in every state, and a call of run that
\* returns shifts each of them left by one and writes the newest value last: the
\* measurement, the state before the update, the weight of this step, and under
\* uwb_imu the velocity and the acceleration.
C15_BuffersShift ==
    /\ BuffersHaveLength(rakf1d, rakf1d_arguments.estimator_parameter_count)
    /\ [][ /\ BuffersHaveLength(rakf1d', rakf1d_arguments.estimator_parameter_count)
           /\ RunReturned =>
                \A k \in 1..Len(SlidingBuffers(rakf1d)) :
                    IsShiftOf(SlidingBuffers(rakf1d')[k], SlidingBuffers(rakf1d)[k],
                              Newest(rakf1d, rakf1d', Last(call_log'))[k]) ]_vars

\* two calls have filled a window of two with different values
C15_Witness ==
    /\ Stepped
    /\ rakf1d_arguments.estimator_parameter_count = 2
    /\ rakf1d_arguments.model_type = UwbImu
    /\ Len(call_log) = 2
    /\ call_log[1].current_measurement # call_log[2].current_measurement
    /\ rakf1d.measurement_buffer =
          << call_log[1].current_measurement, call_log[2].current_measurement >>
    /\ rakf1d.residual_weight_buffer[1] # rakf1d.residual_weight_buffer[2]
    /\ rakf1d.velocity_buffer = << Two, Two >>


\* the scalar Kalman update of a prediction: gain P-/(P- + noise), then x and P
KalmanUpdate(f, noise) ==
    LET K == RDiv(f.state_error_variance_prediction,
                  RAdd(f.state_error_variance_prediction, noise))
    IN  [ gain |-> K,
          x |-> RAdd(f.state_model_prediction, RMul(K, f.residual_measurement)),
          P |-> RMul(RSub(One, K), f.state_error_variance_prediction) ]

\* the last call of run left the posterior of the scalar Kalman update whose
\* measurement noise term is the measurement standard deviation (1/w)
IsKalmanStep(f) ==
    /\ f.adaptive_factor = One
    /\ f.gain = KalmanUpdate(f, f.measurement_standard_deviation).gain
    /\ f.state_model = KalmanUpdate(f, f.measurement_standard_deviation).x
    /\ f.state_error_variance = KalmanUpdate(f, f.measurement_standard_deviation).P

\* a filter without residual threshold has returned from a call of run
SteppedUnbounded == Stepped /\ rakf1d.residual_threshold = Inf

NumericalFailure ==
    /\ Len(call_log') > Len(call_log)
    /\ \/ ~IsFinite(rakf1d)
       \/ ZeroByZero(BeforeDelta(rakf1d, Last(call_log')))

\* C17: a numerical failure in a call of run is recoverable: the state of the
\* filter (x, P, t_prev and the buffers) is what it was before the call and the
\* process goes on.
C17_NumericalFailureRecoverable ==
    [][NumericalFailure =>
          /\ state_to_dict(rakf1d') = state_to_dict(rakf1d)
          /\ process' = "running"]_vars

-----------------------------------------------------------------------------
(* Properties of the command line program *)

\* the exit status of the process: app() returning lets main() return (0),
\* sys.exit() without argument is 0, sys.exit(-1) is 255, and an exception that
\* nothing catches is 1
ExitCode ==
    IF process = "finished" THEN 0
    ELSE IF process = "exited" THEN (IF exit_site = "main" THEN 0 ELSE 255)
    ELSE 1

\* the causes of a failed startup, read off the configuration file
MissingConfig == config_file = None
MalformedConfig ==
    /\ config_file # None
    /\ \/ "localization" \notin DOMAIN config_file
       \/ "version" \notin DOMAIN config_file["localization"]
       \/ "trackers" \notin DOMAIN config_file["localization"]
HasTrackers == ~MissingConfig /\ ~MalformedConfig /\ config_file["localization"]["trackers"] # <<>>
FirstTracker == config_file["localization"]["trackers"][1]
UnsupportedAlgorithm ==
    HasTrackers /\ "protocol" \in DOMAIN FirstTracker /\ FirstTracker.algorithm.type # "rakf"
UnsupportedProtocol ==
    /\ HasTrackers /\ "protocol" \in DOMAIN FirstTracker
    /\ FirstTracker.algorithm.type = "rakf"
    /\ ProtocolRejected(FirstTracker.protocol)

\* C18: when startup fails because the configuration file is missing or
\* malformed, or because a tracker's algorithm is not rakf or a protocol entry
\* is not amq, the process ends with an exit code other than 0.
C18_StartupFailureExitsNonZero ==
    (/\ process # "running"
     /\ MissingConfig \/ MalformedConfig \/ UnsupportedAlgorithm \/ UnsupportedProtocol)
        => ExitCode # 0


\* C19: a SIGHUP sent to a service started with a well-formed configuration is
\* served by the loop: the process does not end with the signal undelivered, and
\* whenever the loop drives coordinators they are exactly the ones built from the
\* configuration read last.
C19_ReloadAfterSighup ==
    /\ (WellFormedConfig /\ sighup_pending) => process = "running"
    /\ (app_pc = "loop" /\ tracker_config # None) =>
          Len(tracker_in_ws) = Len(tracker_config["trackers"])

-----------------------------------------------------------------------------
(* Callbacks and the loop task *)

\* a transport callback ran in this step
CallbackRan == deliveries' # deliveries

\* the places where the loop task awaits the transport or the timer
AwaitPoints == {"connect", "pub_plm", "pub_visual", "sleep"}

\* q grew at its end only
IsExtensionOf(new, old) ==
    /\ Len(new) >= Len(old)
    /\ SubSeq(new, 1, Len(old)) = old

\* C20: the filters are never touched concurrently. A transport callback runs
\* only while the loop task waits at an await of connect, publish or sleep, never
\* inside update(); it only appends to the queue and leaves the filters, the
\* store, the published messages and the position of the loop task as they are.
\* The filters change only in a step of the loop task, construction or one whole
\* update(), in which no callback runs.
C20_NoConcurrentFilterAccess ==
    [][ /\ CallbackRan =>
              /\ pc \in AwaitPoints
              /\ pc' = pc
              /\ rakf' = rakf /\ redis_db' = redis_db /\ bus' = bus /\ run_log' = run_log
              /\ new_measurement' = new_measurement /\ result' = result
              /\ IsExtensionOf(consume_telemetry_queue', consume_telemetry_queue)
        /\ rakf' # rakf =>
              /\ pc \in {"start", "tick"}
              /\ ~CallbackRan ]_vars

\* a callback has put a record on the queue while the loop task was publishing
\* the estimate of an earlier record
C20_Witness ==
    /\ pc \in {"pub_plm", "pub_visual"}
    /\ last_update = "processed"
    /\ run_log # <<>>
    /\ arrivals > tick_start
    /\ consume_telemetry_queue # <<>>
    /\ process = "running"

-----------------------------------------------------------------------------
(* The equations of a step *)

\* the adaptive factor the three branches give for delta, nan falling through
\* every comparison to the last branch
BranchOf(delta, c0, c, gamma) ==
    IF delta = NaN THEN NaN
    ELSE IF RLt(delta, c0) THEN One
    ELSE IF RLt(c0, delta) /\ RLt(delta, c) THEN RMul(RDiv(c0, delta), gamma)
    ELSE RMul(delta, gamma)

\* C21: after every call of run that returns, the adaptive factor is 1 when
\* delta < c0, (c0/delta)*gamma when c0 < delta < c strictly, and delta*gamma in
\* every other case, the boundaries delta = c0 and delta = c included, where
\* delta = (x_hat - x_pred)/P_pred.
C21_AdaptiveFactorBranches ==
    Stepped =>
        /\ rakf1d.state_error_variance_prediction # Zero =>
              rakf1d.delta_state_estimate =
                  RDiv(RSub(rakf1d.state_estimation, rakf1d.state_model_prediction),
                       rakf1d.state_error_variance_prediction)
        /\ rakf1d.adaptive_factor =
              BranchOf(rakf1d.delta_state_estimate, rakf1d.adaptive_threshold,
                       rakf1d.residual_threshold, rakf1d.gamma)

\* a call whose delta met the residual threshold exactly took the last branch
C21_Witness ==
    /\ Stepped
    /\ rakf1d.delta_state_estimate = rakf1d.residual_threshold
    /\ rakf1d.adaptive_factor = RMul(rakf1d.residual_threshold, rakf1d.gamma)
    /\ rakf1d.adaptive_factor # RMul(RDiv(rakf1d.adaptive_threshold, rakf1d.residual_threshold), rakf1d.gamma)


\* the last call of run saw a normalized residual above the residual threshold
OutlierStep ==
    /\ Stepped
    /\ RLt(Zero, rakf1d.residual_threshold)
    /\ RLt(Zero, rakf1d.gamma)
    /\ RLt(Zero, rakf1d.measurement_standard_deviation)
    /\ RLt(rakf1d.residual_threshold, rakf1d.residual_measurement_dash)

\* the weight of an inlier, and of an outlier as equations 31 and 32 give it
InlierWeight(f) == RDiv(One, f.measurement_standard_deviation)
OutlierWeight(f) ==
    RMul(RDiv(f.residual_threshold, RMul(RMul(f.residual_measurement_dash, Two), f.gamma)),
         RDiv(One, f.measurement_standard_deviation))

\* C22 as stated: on every step whose normalized residual exceeds the residual
\* threshold the weight is c/(r*2*gamma*sigma) and is below the inlier weight,
\* for every c > 0, gamma > 0 and sigma > 0.
C22_OutlierAlwaysAttenuated ==
    OutlierStep =>
        /\ rakf1d.residual_weight = OutlierWeight(rakf1d)
        /\ RLt(rakf1d.residual_weight, InlierWeight(rakf1d))

\* C22: on every step whose normalized residual exceeds the residual threshold
\* the weight is c/(r*2*gamma*sigma); it is below the inlier weight exactly when
\* c < 2*gamma*r, which is the case whenever gamma >= 1/2.
C22_OutlierAttenuatedForGamma ==
    OutlierStep =>
        /\ rakf1d.residual_weight = OutlierWeight(rakf1d)
        /\ RLt(rakf1d.residual_weight, InlierWeight(rakf1d))
              <=> RLt(rakf1d.residual_threshold,
                      RMul(RMul(Two, rakf1d.gamma), rakf1d.residual_measurement_dash))
        /\ RLe(Half, rakf1d.gamma) => RLt(rakf1d.residual_weight, InlierWeight(rakf1d))

\* an outlier was attenuated by a filter whose gamma is at least 1/2
C22_Witness ==
    /\ OutlierStep
    /\ RLe(Half, rakf1d.gamma)
    /\ rakf1d.residual_weight = OutlierWeight(rakf1d)
    /\ RLt(rakf1d.residual_weight, InlierWeight(rakf1d))
    /\ rakf1d.measurement_standard_deviation = Two


\* the gain for a predicted variance, an adaptive factor and a weight
GainFor(P_pred, alpha, w) ==
    RDiv(RMul(RDiv(One, alpha), P_pred),
         RAdd(RMul(RDiv(One, alpha), P_pred), RDiv(One, w)))

\* the gain the last call of run would have had with adaptive factor 1
BaselineGain(f) == GainFor(f.state_error_variance_prediction, One, f.residual_weight)

\* the last call of run returned numbers, from a positive predicted variance and
\* a positive weight
AdaptiveStep ==
    /\ Stepped
    /\ IsFinite(rakf1d)
    /\ RLt(Zero, rakf1d.state_error_variance_prediction)
    /\ RLt(Zero, rakf1d.residual_weight)
    /\ RLt(Zero, rakf1d.adaptive_factor)

\* C23 as stated: on a step whose adaptive factor is above 1 the gain is larger
\* than the gain of the same step with adaptive factor 1.
C23_GainGrows ==
    (AdaptiveStep /\ RLt(One, rakf1d.adaptive_factor)) =>
        RLt(BaselineGain(rakf1d), rakf1d.gain)

\* C23: the gain of a step is (P_pred/alpha)/((P_pred/alpha) + 1/w); with an
\* adaptive factor above 1 it is smaller than the gain of the same step with
\* adaptive factor 1, and with an adaptive factor below 1 it is larger.
C23_GainShrinks ==
    AdaptiveStep =>
        /\ rakf1d.gain = GainFor(rakf1d.state_error_variance_prediction,
                                 rakf1d.adaptive_factor, rakf1d.residual_weight)
        /\ RLt(One, rakf1d.adaptive_factor) => RLt(rakf1d.gain, BaselineGain(rakf1d))
        /\ RLt(rakf1d.adaptive_factor, One) => RLt(BaselineGain(rakf1d), rakf1d.gain)

\* a step with an adaptive factor above 1 had a gain below the baseline
C23_Witness ==
    /\ AdaptiveStep
    /\ RLt(One, rakf1d.adaptive_factor)
    /\ RLt(rakf1d.gain, BaselineGain(rakf1d))
    /\ RLt(Zero, rakf1d.gain)

-----------------------------------------------------------------------------
(* The configuration of the axis filters *)

\* C24: every axis filter of the coordinator is built from the values of its
\* own axis: its measurement standard deviation is the root of
\* error.measurement of that axis.
C24_PerAxisMeasurementError ==
    Constructed =>
        \A axis \in AxisSet :
            rakf[axis] # None =>
                rakf[axis].measurement_standard_deviation =
                    RSqrt(config.algorithm.error.measurement[axis])

-----------------------------------------------------------------------------
(* Deliveries, queue and store *)

\* the deliveries of the transport that passed the schema validation
ValidDeliveries == {i \in 1..Len(deliveries) : PassesValidation(deliveries[i])}

\* how many messages are on an exchange
PublishedOn(exchange) == Cardinality({i \in 1..Len(bus) : bus[i].exchange = exchange})

\* C25: every delivery that passes the schema validation is put on the queue
\* exactly once, however many subscribers the coordinator has, so the deliveries
\* bound the filter steps and the publishes on each exchange.
C25_EnqueuedOncePerDelivery ==
    /\ arrivals = Cardinality(ValidDeliveries)
    /\ Len(run_log) <= Cardinality(ValidDeliveries)
    /\ PublishedOn("plm_walker") <= Cardinality(ValidDeliveries)
    /\ PublishedOn("visual") <= Cardinality(ValidDeliveries)


\* the tags the store holds nothing for
AbsentTags == {id \in TagIds : RedisGet(redis_db, StoreKey(id)) = None}

\* C26: the service writes personnel_<id> only in an update() that has read a
\* value under that same key. The tags the store held nothing for at the start
\* stay without an entry: no filter step runs for a record of such a tag and no
\* estimate of it is published.
C26_WritesOnlyAfterRead ==
    /\ [](/\ AbsentTags = TagIds \ SeededTags
          /\ \A k \in 1..Len(run_log) : run_log[k].measurement["id"] \notin AbsentTags
          /\ \A i \in 1..Len(bus) : JsonLoads(bus[i].msg)["id"] \notin AbsentTags)
    /\ [][\A key \in DOMAIN redis_db :
             redis_db'[key] # redis_db[key] =>
                /\ RedisGet(redis_db, key) # None
                /\ key = StoreKey(new_measurement'.item["id"])
                /\ pc = "tick"]_vars

\* a record of a tag without an entry was taken off the queue and skipped after
\* a record of a seeded tag had been stepped, saved and published
C26_Witness ==
    /\ process = "running"
    /\ last_update = "skipped"
    /\ new_measurement.item["id"] \in AbsentTags
    /\ run_log # <<>>
    /\ bus # <<>>
    /\ RedisGet(redis_db, StoreKey("a")) # JsonDumps(SeedStateInformation(config.algorithm))

=============================================================================
